---- MODULE Spec2Model ----
(***************************************************************************)
(* Day 10 of advent-of-code-2025 (src/src/day10.rs).                       *)
(*                                                                         *)
(*   StateMachine<S>  level-synchronous breadth-first search over the      *)
(*                    states generated by a list of transitions            *)
(*   ILPSolver        minimal non-negative integer combination of basis    *)
(*                    vectors, solved by an integer-programming backend    *)
(*   Machine          the puzzle instance that feeds both                  *)
(*                                                                         *)
(* SpecSearch explores StateMachine, SpecILP explores ILPSolver.           *)
(***************************************************************************)
EXTENDS Integers, Sequences, FiniteSets, TLC

VARIABLES
    \* ---- Machine (day10.rs:7-11) ----
    buttons,            \* Vec<Vec<usize>>; << >> where no Machine is involved
    \* ---- StateMachine<S> (day10.rs:124-130) and the arguments of new ----
    initial_state,      \* the initial_state argument of StateMachine::new
    transitions,        \* Vec<Box<dyn Fn(&S) -> S>>, as a sequence of descriptors
    target_state,
    known_states,
    visited_states,
    transition_count,
    \* ---- position inside min_transition_count / step ----
    pc,                 \* "loop", "for_states", "for_new_states", "done", "idle"
    states_to_process,  \* step: the snapshot, in the order the HashSet yielded it
    starting_state,     \* step: Some(the frontier state being expanded)
    new_states,         \* step: the states of all_states_from still to visit
    result,             \* what min_transition_count returned
    invocation,         \* number of the current call of min_indicator_light_button_presses
    first_result,       \* what the first call returned
    \* ---- ILPSolver (day10.rs:198-201) and its caller ----
    basis_vectors,
    target,
    ilp_pc,             \* "new", "ready", "done", "idle"
    solution_vector,    \* what ILPSolver::solution returned
    presses,            \* what Machine::min_joltage_button_presses returned
    \* ---- main of bin/day10.rs ----
    machines,           \* what Machine::parse_all returned
    main_pc,            \* "part1", "in_part1", "part2", "in_part2", "print",
                        \* "printed", "failed", "aborted", "idle"
    machine_index,      \* position of the map() iterator, a Rust index
    part1_counts,       \* the Ok values collected so far in part 1
    part2_counts,       \* the Ok values collected so far in part 2
    totals,             \* the sums computed so far, part 1 first
    main_output,        \* the two numbers printed, or what main ended with
    \* ---- a second search, for two searches run side by side ----
    other_search,       \* the StateMachine and call position that is not running
    running,            \* which of the two searches the search variables hold
    alone_results,      \* what each search returned when run alone
    \* ---- IngredientDatabase (day05.rs) ----
    overflow_checks,    \* build with (TRUE) or without (FALSE) overflow checks
    db_input,           \* the ranges handed to IngredientDatabase::new
    sorted_ranges,      \* remove_overlaps: the sorted ranges still to add
    fresh_ingredient_ranges,  \* remove_overlaps: result, then the field
    db_pc,              \* "new", "adding", "built", "counted", "aborted", "idle"
    known_fresh_count,  \* what known_fresh_ingredient_count returned
    \* ---- Floor (day09.rs) ----
    red_tiles,
    edge,               \* the argument of valid_edge
    floor_pc,           \* "call", "returned", "idle"
    valid               \* what valid_edge returned

input_vars == <<buttons, initial_state, transitions, target_state>>
search_vars == <<input_vars, known_states,
                 visited_states, transition_count, pc, states_to_process,
                 starting_state, new_states, result, invocation, first_result>>
ilp_vars == <<basis_vectors, target, ilp_pc, solution_vector, presses>>
main_vars == <<machines, main_pc, machine_index, part1_counts, part2_counts,
               totals, main_output>>
pair_vars == <<other_search, running, alone_results>>
db_vars == <<overflow_checks, db_input, sorted_ranges, fresh_ingredient_ranges,
             db_pc, known_fresh_count>>
floor_vars == <<red_tiles, edge, floor_pc, valid>>
\* everything outside StateMachine and ILPSolver
outer_vars == <<main_vars, pair_vars, db_vars, floor_vars>>
vars == <<search_vars, ilp_vars, outer_vars>>

(***************************************************************************)
(* Bounds of the exploration.                                              *)
(***************************************************************************)
MaxLights == 2          \* indicator lights per machine
MaxButtons == 2         \* buttons per machine / transitions per StateMachine
MaxButtonLen == 1       \* indices listed by one button, see ButtonsFor
MaxIntTarget == 5       \* largest target of the integer-state instances
MaxInvocations == 2     \* calls of min_indicator_light_button_presses compared

\* const MAX_TRANSITIONS: usize = 10000, scaled down so that searches that
\* run into the bound stay explorable; every formula below is stated in
\* terms of the name, never of the value.
MAX_TRANSITIONS == 3

(***************************************************************************)
(* Results.                                                                *)
(***************************************************************************)
None == <<"None">>
Some(value) == <<"Some", value>>
Ok(value) == <<"Ok", value>>
ErrMaxTransitions == <<"Err", "Maximum transition count exceeded">>
NoResult == <<"pending">>

IsOk(r) == r[1] = "Ok"
IsErr(r) == r[1] = "Err"

(***************************************************************************)
(* Machine: the indicator-light side.                                      *)
(* A light state is a sequence of BOOLEAN; Rust index i is position i+1.   *)
(***************************************************************************)
\* Variant of apply_indicator_light_button_press that switches the listed
\* lights on instead of negating them.
apply_indicator_light_button_press_switching_on(state, button) ==
    [i \in 1..Len(state) |->
        IF \E k \in 1..Len(button) : button[k] = i - 1 THEN TRUE ELSE state[i]]

RECURSIVE apply_indicator_light_button_press(_, _)
apply_indicator_light_button_press(state, button) ==
    IF button = <<>> THEN state
    ELSE LET i == Head(button) + 1
             toggled == [state EXCEPT ![i] = ~state[i]]
         IN  apply_indicator_light_button_press(toggled, Tail(button))

initial_indicator_light_state(indicator_lights_target) ==
    [i \in 1..Len(indicator_lights_target) |-> FALSE]

\* One transition per button, in button order.
indicator_light_transitions(bs) ==
    [i \in 1..Len(bs) |-> [kind |-> "button", arg |-> bs[i]]]

(***************************************************************************)
(* Transitions.  A Box<dyn Fn(&S) -> S> is a descriptor plus Apply:        *)
(*   "button"  the closure of indicator_light_transitions                  *)
(*   "add", "mul", "set"  closures over integer states, s+k, s*k and k,    *)
(*             which give directed and unbounded state graphs              *)
(***************************************************************************)
Apply(transition, state) ==
    CASE transition.kind = "button" ->
            apply_indicator_light_button_press(state, transition.arg)
      [] transition.kind = "add" -> state + transition.arg
      [] transition.kind = "mul" -> state * transition.arg
      [] transition.kind = "set" -> transition.arg

(***************************************************************************)
(* StateMachine<S>.                                                        *)
(***************************************************************************)
unprocessed_states(known, visited) == known \ visited

\* Variant of all_states_from that leaves out the last transition.
all_states_from_without_last(ts, state) ==
    [i \in 1..(Len(ts) - 1) |-> Apply(ts[i], state)]

all_states_from(ts, state) == [i \in 1..Len(ts) |-> Apply(ts[i], state)]

\* new_state[*indicator_light_index] with an index that the state does not
\* have: the indexing panics
index_out_of_bounds(state, button) ==
    \E k \in 1..Len(button) : button[k] >= Len(state)

\* some closure of the list panics when it is applied to the state
all_states_from_panics(ts, state) ==
    \E i \in 1..Len(ts) :
        /\ ts[i].kind = "button"
        /\ index_out_of_bounds(state, ts[i].arg)

\* Variants of visit_state_returns with a slip in them.
\* the count of the pass before:
visit_state_returns_stale_count(state, visited, tgt, count) ==
    IF state \in visited THEN None
    ELSE IF state = tgt THEN Some(count - 1)
    ELSE None

\* any state not yet visited ends the search:
visit_state_returns_without_target_test(state, visited, tgt, count) ==
    IF state \in visited THEN None
    ELSE Some(count)

\* the number of visited states instead of the number of passes:
visit_state_returns_visited_len(state, visited, tgt, count) ==
    IF state \in visited THEN None
    ELSE IF state = tgt THEN Some(Cardinality(visited))
    ELSE None

\* visit_state: the value it returns ...
visit_state_returns(state, visited, tgt, count) ==
    IF state \in visited THEN None
    ELSE IF state = tgt THEN Some(count)
    ELSE None

\* Variant of visit_state_known that keeps the new state alone.
visit_state_known_overwrites(state, known, visited, tgt) ==
    IF state \in visited THEN known
    ELSE IF state = tgt THEN known
    ELSE {state}

\* ... and known_states after it.
visit_state_known(state, known, visited, tgt) ==
    IF state \in visited THEN known
    ELSE IF state = tgt THEN known
    ELSE known \cup {state}

\* Variant of bound_exceeded that is never true.
bound_exceeded_never(count) == count < 0

\* The guard of the bound-exceeded return of min_transition_count.
bound_exceeded(count) == count > MAX_TRANSITIONS

\* transition_count after the increment at the head of step.
step_count(count) == count + 1

\* All orders in which iterating a HashSet can yield the elements of S.
Orderings(S) ==
    {order \in [1..Cardinality(S) -> S] :
        \A i, j \in 1..Cardinality(S) : i # j => order[i] # order[j]}

\* StateMachine::new
new(ts, tgt, init) ==
    /\ initial_state = init
    /\ transitions = ts
    /\ target_state = tgt
    /\ known_states = {init}
    /\ visited_states = {}
    /\ transition_count = 0

StepLocalsCleared ==
    /\ states_to_process = <<>>
    /\ starting_state = None
    /\ new_states = <<>>

ILPIdle ==
    /\ basis_vectors = <<>>
    /\ target = <<>>
    /\ ilp_pc = "idle"
    /\ solution_vector = NoResult
    /\ presses = NoResult

MainIdle ==
    /\ machines = <<>>
    /\ main_pc = "idle"
    /\ machine_index = 0
    /\ part1_counts = <<>>
    /\ part2_counts = <<>>
    /\ totals = <<>>
    /\ main_output = NoResult

PairIdle ==
    /\ other_search = NoResult
    /\ running = 0
    /\ alone_results = <<>>

DbIdle ==
    /\ overflow_checks = FALSE
    /\ db_input = <<>>
    /\ sorted_ranges = <<>>
    /\ fresh_ingredient_ranges = <<>>
    /\ db_pc = "idle"
    /\ known_fresh_count = NoResult

FloorIdle ==
    /\ red_tiles = <<>>
    /\ edge = NoResult
    /\ floor_pc = "idle"
    /\ valid = NoResult

(***************************************************************************)
(* Inputs of the search.                                                   *)
(***************************************************************************)
SeqsUpTo(S, n) == UNION {[1..k -> S] : k \in 0..n}
NonEmptySeqsUpTo(S, n) == UNION {[1..k -> S] : k \in 1..n}

LightVectors == UNION {[1..n -> BOOLEAN] : n \in 0..MaxLights}

\* Buttons as the parser builds them: a non-empty list of indices,
\* repetitions allowed; here every index is one of the n existing ones.
\* Explored are all lists of up to MaxButtonLen indices and, whatever
\* MaxButtonLen is, the button that lists one index twice and the button
\* that lists every index.
ButtonShapes(n) ==
    NonEmptySeqsUpTo(0..(n - 1), MaxButtonLen)
        \cup {<<i, i>> : i \in 0..(n - 1)}
        \cup (IF n > 0 THEN {[k \in 1..n |-> k - 1]} ELSE {})

ButtonsFor(n) == SeqsUpTo(ButtonShapes(n), MaxButtons)

IntTransitions ==
    {[kind |-> "add", arg |-> 0], [kind |-> "add", arg |-> 1],
     [kind |-> "add", arg |-> 2], [kind |-> "mul", arg |-> 2],
     [kind |-> "set", arg |-> 0], [kind |-> "set", arg |-> 1]}

\* Machine::min_indicator_light_button_presses up to the call of
\* min_transition_count.
InitMachineSearch ==
    \E lights \in LightVectors :
        \E bs \in ButtonsFor(Len(lights)) :
            /\ buttons = bs
            /\ new(indicator_light_transitions(bs), lights,
                   initial_indicator_light_state(lights))

\* StateMachine over integer states.
InitIntSearch ==
    \E ts \in SeqsUpTo(IntTransitions, MaxButtons) :
        \E init \in 0..1, tgt \in 0..MaxIntTarget :
            /\ buttons = <<>>
            /\ new(ts, tgt, init)

InitSearch ==
    /\ InitMachineSearch \/ InitIntSearch
    /\ pc = "loop"
    /\ StepLocalsCleared
    /\ result = NoResult
    /\ invocation = 1
    /\ first_result = NoResult
    /\ ILPIdle
    /\ MainIdle /\ PairIdle /\ DbIdle /\ FloorIdle

(***************************************************************************)
(* min_transition_count and step, one action per loop position.            *)
(***************************************************************************)
\* loop head: transition_count > MAX_TRANSITIONS, return Err
min_transition_count_err ==
    /\ pc = "loop"
    /\ bound_exceeded(transition_count)
    /\ result' = ErrMaxTransitions
    /\ pc' = "done"
    /\ UNCHANGED <<input_vars, known_states,
                   visited_states, transition_count, states_to_process,
                   starting_state, new_states, invocation, first_result>>
    /\ UNCHANGED ilp_vars
    /\ UNCHANGED outer_vars

\* loop head, otherwise: enter step; snapshot the frontier, count the pass
step_begin ==
    /\ pc = "loop"
    /\ ~bound_exceeded(transition_count)
    /\ \E order \in Orderings(unprocessed_states(known_states, visited_states)) :
            states_to_process' = order
    /\ transition_count' = step_count(transition_count)
    /\ pc' = "for_states"
    /\ UNCHANGED <<input_vars, known_states,
                   visited_states, starting_state, new_states, result,
                   invocation, first_result>>
    /\ UNCHANGED ilp_vars
    /\ UNCHANGED outer_vars

\* for starting_state in states_to_process: next element, all_states_from;
\* a panic inside a closure ends the process
step_next_state ==
    /\ pc = "for_states"
    /\ states_to_process # <<>>
    /\ IF all_states_from_panics(transitions, Head(states_to_process))
       THEN /\ pc' = "aborted"
            /\ UNCHANGED <<states_to_process, starting_state, new_states>>
       ELSE /\ pc' = "for_new_states"
            /\ states_to_process' = Tail(states_to_process)
            /\ starting_state' = Some(Head(states_to_process))
            /\ new_states' =
                    all_states_from(transitions, Head(states_to_process))
    /\ UNCHANGED <<input_vars, known_states,
                   visited_states, transition_count, result, invocation,
                   first_result>>
    /\ UNCHANGED ilp_vars
    /\ UNCHANGED outer_vars

\* Variant of step_visit_state that iterates the live frontier: a state
\* that becomes known joins the states still to process in this pass.
step_visit_state_live_frontier ==
    /\ pc = "for_new_states"
    /\ new_states # <<>>
    /\ LET state == Head(new_states)
           returned == visit_state_returns(state, visited_states, target_state,
                                           transition_count)
           known == visit_state_known(state, known_states, visited_states,
                                      target_state)
       IN  /\ known_states' = known
           /\ states_to_process' =
                IF known = known_states THEN states_to_process
                ELSE Append(states_to_process, state)
           /\ new_states' = Tail(new_states)
           /\ IF returned = None
              THEN /\ pc' = "for_new_states"
                   /\ result' = result
              ELSE /\ pc' = "done"
                   /\ result' = Ok(returned[2])
    /\ UNCHANGED <<input_vars, visited_states,
                   transition_count, starting_state,
                   invocation, first_result>>
    /\ UNCHANGED ilp_vars
    /\ UNCHANGED outer_vars

\* for new_state in new_states: visit_state; Some(count) leaves step and
\* min_transition_count with Ok(count)
step_visit_state ==
    /\ pc = "for_new_states"
    /\ new_states # <<>>
    /\ LET state == Head(new_states)
           returned == visit_state_returns(state, visited_states, target_state,
                                           transition_count)
       IN  /\ known_states' = visit_state_known(state, known_states,
                                                visited_states, target_state)
           /\ new_states' = Tail(new_states)
           /\ IF returned = None
              THEN /\ pc' = "for_new_states"
                   /\ result' = result
              ELSE /\ pc' = "done"
                   /\ result' = Ok(returned[2])
    /\ UNCHANGED <<input_vars, visited_states,
                   transition_count, states_to_process, starting_state,
                   invocation, first_result>>
    /\ UNCHANGED ilp_vars
    /\ UNCHANGED outer_vars

\* Variant of step_insert_visited that does not record the starting state.
step_insert_visited_forgets ==
    /\ pc = "for_new_states"
    /\ new_states = <<>>
    /\ visited_states' = visited_states
    /\ pc' = "for_states"
    /\ UNCHANGED <<input_vars, known_states,
                   transition_count, states_to_process, starting_state,
                   new_states, result, invocation, first_result>>
    /\ UNCHANGED ilp_vars
    /\ UNCHANGED outer_vars

\* end of the inner loop: visited_states.insert(starting_state)
step_insert_visited ==
    /\ pc = "for_new_states"
    /\ new_states = <<>>
    /\ visited_states' = visited_states \cup {starting_state[2]}
    /\ pc' = "for_states"
    /\ UNCHANGED <<input_vars, known_states,
                   transition_count, states_to_process, starting_state,
                   new_states, result, invocation, first_result>>
    /\ UNCHANGED ilp_vars
    /\ UNCHANGED outer_vars

\* Variant of step_returns_none that gives up with the error as soon as a
\* pass ends with nothing left to process.
step_returns_none_stops_when_exhausted ==
    /\ pc = "for_states"
    /\ states_to_process = <<>>
    /\ IF unprocessed_states(known_states, visited_states) = {}
       THEN /\ pc' = "done"
            /\ result' = ErrMaxTransitions
       ELSE /\ pc' = "loop"
            /\ result' = result
    /\ UNCHANGED <<input_vars, known_states,
                   visited_states, transition_count, states_to_process,
                   starting_state, new_states, invocation, first_result>>
    /\ UNCHANGED ilp_vars
    /\ UNCHANGED outer_vars

\* end of the outer loop: step returns None, back to the loop head
step_returns_none ==
    /\ pc = "for_states"
    /\ states_to_process = <<>>
    /\ pc' = "loop"
    /\ UNCHANGED <<input_vars, known_states,
                   visited_states, transition_count, states_to_process,
                   starting_state, new_states, result, invocation, first_result>>
    /\ UNCHANGED ilp_vars
    /\ UNCHANGED outer_vars

\* Machine::min_indicator_light_button_presses called again on the same
\* machine: it builds a fresh StateMachine from the same arguments.
min_indicator_light_button_presses_again ==
    /\ pc = "done"
    /\ invocation < MaxInvocations
    /\ invocation' = invocation + 1
    /\ first_result' = IF invocation = 1 THEN result ELSE first_result
    /\ known_states' = {initial_state}
    /\ visited_states' = {}
    /\ transition_count' = 0
    /\ states_to_process' = <<>>
    /\ starting_state' = None
    /\ new_states' = <<>>
    /\ result' = NoResult
    /\ pc' = "loop"
    /\ UNCHANGED input_vars
    /\ UNCHANGED ilp_vars
    /\ UNCHANGED outer_vars

NextSearch ==
    \/ min_transition_count_err
    \/ step_begin
    \/ step_next_state
    \/ step_visit_state
    \/ step_insert_visited
    \/ step_returns_none
    \/ min_indicator_light_button_presses_again

SpecSearch == InitSearch /\ [][NextSearch]_vars


\* One call of min_transition_count, from its first step to its return.
min_transition_count ==
    \/ min_transition_count_err
    \/ step_begin
    \/ step_next_state
    \/ step_visit_state
    \/ step_insert_visited
    \/ step_returns_none

\* The call runs on: whenever a step of it is possible, a step is taken
\* (one thread, no blocking calls).
SpecSearchFair ==
    InitSearch /\ [][min_transition_count]_vars /\ WF_vars(min_transition_count)

(***************************************************************************)
(* Reference notions for the search claims, computed from the transition   *)
(* list alone: explicit sequences of transition applications.              *)
(***************************************************************************)
ClosureDepth == 6       \* passes within which a finite state space must close

\* A path is a sequence of indices into transitions.
PathsOfLength(d) == [1..d -> 1..Len(transitions)]

RECURSIVE RunPath(_, _)
RunPath(state, path) ==
    IF path = <<>> THEN state
    ELSE RunPath(Apply(transitions[Head(path)], state), Tail(path))

Reaches(d) == \E path \in PathsOfLength(d) : RunPath(initial_state, path) = target_state

ReachesWithin(limit) == \E d \in 0..limit : Reaches(d)

ShortestPathLength(limit) ==
    CHOOSE d \in 0..limit : Reaches(d) /\ \A e \in 0..(d - 1) : ~Reaches(e)

RECURSIVE ReachableWithin(_)
ReachableWithin(n) ==
    IF n = 0 THEN {initial_state}
    ELSE LET before == ReachableWithin(n - 1)
         IN  before \cup {Apply(transitions[i], s) : i \in 1..Len(transitions), s \in before}

\* The whole reachable state space has been seen and the target is not in it.
ExhaustedWithoutTarget ==
    LET reachable == ReachableWithin(ClosureDepth)
    IN  /\ \A i \in 1..Len(transitions), s \in reachable :
                Apply(transitions[i], s) \in reachable
        /\ target_state \notin reachable

Returned == pc = "done"

(***************************************************************************)
(* C1  BFS minimality: when the target differs from the initial state and  *)
(* some sequence of at most MAX_TRANSITIONS transition applications leads  *)
(* to it, min_transition_count returns Ok(d), d the length of the shortest *)
(* such sequence.                                                          *)
(***************************************************************************)
C1_BfsMinimality ==
    (Returned /\ target_state # initial_state /\ ReachesWithin(MAX_TRANSITIONS))
        => result = Ok(ShortestPathLength(MAX_TRANSITIONS))

\* buttons (0) and (1), target [#, #]: two presses
C1_Witness ==
    /\ Returned
    /\ transitions = indicator_light_transitions(<<(<<0>>), (<<1>>)>>)
    /\ target_state = <<TRUE, TRUE>>
    /\ result = Ok(2)

(***************************************************************************)
(* C2  Zero-distance case: when the initial state equals the target, the   *)
(* search returns 0.                                                       *)
(***************************************************************************)
C2_ZeroDistance ==
    (Returned /\ initial_state = target_state) => result = Ok(0)

(***************************************************************************)
(* C3  Unreachable target: a search whose target no sequence of            *)
(* transitions reaches returns the bound-exceeded error, also when the     *)
(* reachable states are exhausted before the bound; an Ok(n) is returned   *)
(* only if some sequence of n transitions leads to the target.             *)
(***************************************************************************)
C3_UnreachableTarget ==
    Returned =>
        /\ ExhaustedWithoutTarget => result = ErrMaxTransitions
        /\ IsOk(result) => Reaches(result[2])

\* the frontier ran empty with fewer states than passes, and the error came
C3_Witness ==
    /\ Returned
    /\ ExhaustedWithoutTarget
    /\ known_states = visited_states
    /\ Cardinality(known_states) < MAX_TRANSITIONS
    /\ Len(transitions) > 0
    /\ result = ErrMaxTransitions

(***************************************************************************)
(* C4  Bound respected: every Ok(n) returned has n <= MAX_TRANSITIONS.     *)
(***************************************************************************)
C4_BoundRespected ==
    (Returned /\ IsOk(result)) => result[2] <= MAX_TRANSITIONS

(***************************************************************************)
(* C5  Determinism: a second search built from the same initial state,     *)
(* target and transitions returns what the first one returned, whatever    *)
(* orders the two searches iterate their frontiers in.                     *)
(***************************************************************************)
C5_Determinism ==
    (Returned /\ invocation > 1) => result = first_result

\* the second search ended in a pass whose frontier held several states
C5_Witness ==
    /\ Returned
    /\ invocation > 1
    /\ Cardinality(unprocessed_states(known_states, visited_states)) > 1
    /\ IsOk(result)
    /\ result = first_result

(***************************************************************************)
(* ILPSolver and Machine::min_joltage_button_presses.                      *)
(***************************************************************************)
MaxCounters == 2        \* joltage counters per machine
MaxJoltage == 1         \* largest joltage target of a machine
MaxDim == 1             \* length of a vector where ILPSolver is used directly
MaxBasis == 2           \* basis vectors handed to ILPSolver::new directly
MaxBasisEntry == 2      \* largest component of such a basis vector
MaxTargetEntry == 2     \* largest component of such a target

ErrInfeasible == <<"Err", "Infeasible">>
Aborted == <<"abort">>

RECURSIVE SumFirst(_, _)
SumFirst(seq, n) == IF n = 0 THEN 0 ELSE SumFirst(seq, n - 1) + seq[n]

SumSeq(seq) == SumFirst(seq, Len(seq))

SeqMax(seq) ==
    IF seq = <<>> THEN 0
    ELSE CHOOSE m \in {seq[i] : i \in 1..Len(seq)} : \A i \in 1..Len(seq) : seq[i] <= m

\* button.contains(&i), i a Rust index
button_contains(button, i) == \E k \in 1..Len(button) : button[k] = i

joltage_basis_vectors(bs, joltages_target) ==
    [b \in 1..Len(bs) |->
        [i \in 1..Len(joltages_target) |->
            IF button_contains(bs[b], i - 1) THEN 1 ELSE 0]]

\* Variant of assert_dimension that looks at the first vector only.
assert_dimension_first_only(vectors, expected_dimension) ==
    Len(vectors) = 0 \/ Len(vectors[1]) = expected_dimension

\* TRUE when no assert_eq! of assert_dimension fails
assert_dimension(vectors, expected_dimension) ==
    \A i \in 1..Len(vectors) : Len(vectors[i]) = expected_dimension

\* DMatrix::from_fn(basis_vectors[0].len(), basis_vectors.len(), ...):
\* row j holds component j of every basis vector
basis_matrix(bv) ==
    [row \in 1..Len(bv[1]) |-> [col \in 1..Len(bv) |-> bv[col][row]]]

\* the value of every row expression under the assignment c of the variables
basis_expressions(bv, c) ==
    LET matrix == basis_matrix(bv)
    IN  [row \in 1..Len(matrix) |->
            SumSeq([col \in 1..Len(c) |-> matrix[row][col] * c[col]])]

\* Variant of constraints with expression <= target.
constraints_at_most(bv, tgt, c) ==
    LET expressions == basis_expressions(bv, c)
        rows == IF Len(tgt) < Len(expressions) THEN Len(tgt) ELSE Len(expressions)
    IN  \A row \in 1..rows : expressions[row] <= tgt[row]

\* izip!(target, basis_expressions): expression == target, row by row
constraints(bv, tgt, c) ==
    LET expressions == basis_expressions(bv, c)
        rows == IF Len(tgt) < Len(expressions) THEN Len(tgt) ELSE Len(expressions)
    IN  \A row \in 1..rows : expressions[row] = tgt[row]

\* variable().integer().min(0)
variable_min == 0

\* No optimal assignment gives a variable more than the largest target
\* component: a basis vector with a non-zero component is bounded by the
\* equality of that component, an all-zero one is left at the minimum.
variable_values(tgt) == variable_min..SeqMax(tgt)

\* one variable per basis vector, in basis-vector order
variables(bv, tgt) == [1..Len(bv) -> variable_values(tgt)]

objective(c) == SumSeq(c)

\* problem.solve(): the assignments the backend may return, the feasible
\* ones of least objective; none when the program is infeasible
solve(bv, tgt) ==
    LET feasible == {c \in variables(bv, tgt) : constraints(bv, tgt, c)}
        values == {objective(c) : c \in feasible}
        least == CHOOSE v \in values : \A w \in values : v <= w
    IN  {c \in feasible : objective(c) = least}

\* f64 as u16: saturating
as_u16(x) == IF x < 0 THEN 0 ELSE IF x > 2^16 - 1 THEN 2^16 - 1 ELSE x

\* Variant of solution_vector_of that collects the values back to front.
solution_vector_of_reversed(c) == [i \in 1..Len(c) |-> as_u16(c[Len(c) + 1 - i])]

\* variables.iter().map(|var| solution.value(*var) as u16).collect()
solution_vector_of(c) == [i \in 1..Len(c) |-> as_u16(c[i])]

\* solution.iter().sum() in u16: an overflowing sum aborts (overflow checks
\* on) or wraps (overflow checks off)
sum_u16(seq) ==
    IF SumSeq(seq) < 2^16 THEN {Ok(SumSeq(seq))}
    ELSE {Aborted, Ok(SumSeq(seq) % 2^16)}

SearchIdle ==
    /\ initial_state = None
    /\ transitions = <<>>
    /\ target_state = None
    /\ known_states = {}
    /\ visited_states = {}
    /\ transition_count = 0
    /\ pc = "idle"
    /\ StepLocalsCleared
    /\ result = NoResult
    /\ invocation = 0
    /\ first_result = NoResult

VectorsUpTo(dim, maxEntry) == UNION {[1..n -> 0..maxEntry] : n \in 0..dim}

\* Machine::min_joltage_button_presses up to the call of ILPSolver::new
InitMachineJoltage ==
    \E joltages_target \in VectorsUpTo(MaxCounters, MaxJoltage) \ {<<>>} :
        \E bs \in ButtonsFor(Len(joltages_target)) :
            /\ buttons = bs
            /\ basis_vectors = joltage_basis_vectors(bs, joltages_target)
            /\ target = joltages_target

\* ILPSolver::new on any basis vectors and target
InitSolver ==
    \E bv \in SeqsUpTo(VectorsUpTo(MaxDim, MaxBasisEntry), MaxBasis) :
        \E tgt \in VectorsUpTo(MaxDim, MaxTargetEntry) :
            /\ buttons = <<>>
            /\ basis_vectors = bv
            /\ target = tgt

InitILP ==
    /\ InitMachineJoltage \/ InitSolver
    /\ ilp_pc = "new"
    /\ solution_vector = NoResult
    /\ presses = NoResult
    /\ SearchIdle
    /\ MainIdle /\ PairIdle /\ DbIdle /\ FloorIdle

\* ILPSolver::new: a failed assertion aborts, otherwise the solver exists
ILPSolver_new ==
    /\ ilp_pc = "new"
    /\ ilp_pc' = IF assert_dimension(basis_vectors, Len(target))
                 THEN "ready" ELSE "aborted"
    /\ UNCHANGED <<basis_vectors, target, solution_vector, presses>>
    /\ UNCHANGED search_vars
    /\ UNCHANGED outer_vars

\* ILPSolver::solution: basis_matrix reads basis_vectors[0], which aborts on
\* an empty collection; otherwise the backend's answer, converted
solution ==
    /\ ilp_pc = "ready"
    /\ IF Len(basis_vectors) = 0
       THEN /\ ilp_pc' = "aborted"
            /\ solution_vector' = solution_vector
       ELSE /\ ilp_pc' = "solved"
            /\ LET optimal == solve(basis_vectors, target)
               IN  IF optimal = {}
                   THEN solution_vector' = ErrInfeasible
                   ELSE \E c \in optimal :
                            solution_vector' = Ok(solution_vector_of(c))
    /\ UNCHANGED <<basis_vectors, target, presses>>
    /\ UNCHANGED search_vars
    /\ UNCHANGED outer_vars

\* the rest of min_joltage_button_presses: map_err(..)? and the sum
min_joltage_button_presses_return ==
    /\ ilp_pc = "solved"
    /\ IF IsErr(solution_vector)
       THEN /\ presses' = ErrInfeasible
            /\ ilp_pc' = "done"
       ELSE \E total \in sum_u16(solution_vector[2]) :
                /\ presses' = total
                /\ ilp_pc' = IF total = Aborted THEN "aborted" ELSE "done"
    /\ UNCHANGED <<basis_vectors, target, solution_vector>>
    /\ UNCHANGED search_vars
    /\ UNCHANGED outer_vars

NextILP ==
    \/ ILPSolver_new
    \/ solution
    \/ min_joltage_button_presses_return

SpecILP == InitILP /\ [][NextILP]_vars

(***************************************************************************)
(* Reference notions for the ILP claims, computed from basis_vectors and   *)
(* target alone.                                                           *)
(***************************************************************************)
DimensionsAgree == \A i \in 1..Len(basis_vectors) : Len(basis_vectors[i]) = Len(target)

\* sum over i of c[i] * basis_vectors[i][j]
Combined(c, j) == SumSeq([i \in 1..Len(basis_vectors) |-> c[i] * basis_vectors[i][j]])

\* The non-negative integer combinations that give the target.  A
\* coefficient above the largest target component belongs to an all-zero
\* basis vector and can be lowered to 0, so the box loses no instance.
Combinations ==
    {c \in [1..Len(basis_vectors) -> 0..SeqMax(target)] :
        \A j \in 1..Len(target) : Combined(c, j) = target[j]}

MinimalTotal ==
    CHOOSE m \in {SumSeq(c) : c \in Combinations} :
        \A c \in Combinations : m <= SumSeq(c)

Finished == ilp_pc \in {"done", "aborted"}

C7_IlpMinimality ==
    (Finished /\ DimensionsAgree /\ Combinations # {}) =>
        /\ IsOk(solution_vector)
        /\ SumSeq(solution_vector[2]) = MinimalTotal
        /\ presses = Ok(MinimalTotal)

(***************************************************************************)
(* C8  Infeasibility detection: when the target is no non-negative integer *)
(* combination of the basis vectors, ILPSolver::solution returns Err and   *)
(* min_joltage_button_presses returns Err.                                 *)
(***************************************************************************)
C8_InfeasibilityDetection ==
    (Finished /\ DimensionsAgree /\ Combinations = {}) =>
        /\ IsErr(solution_vector)
        /\ IsErr(presses)

(***************************************************************************)
(* C9  Dimension mismatch fails fast: with a basis vector whose length     *)
(* differs from the target's, ILPSolver::new aborts; no solver exists, no  *)
(* solution is computed and nothing is returned.                           *)
(***************************************************************************)
C9_DimensionMismatchFailsFast ==
    ~DimensionsAgree =>
        /\ ilp_pc \in {"new", "aborted"}
        /\ solution_vector = NoResult
        /\ presses = NoResult

\* the second of two basis vectors is too short, and new aborted
C9_Witness ==
    /\ Len(basis_vectors) = 2
    /\ Len(basis_vectors[1]) = Len(target)
    /\ Len(basis_vectors[2]) < Len(target)
    /\ ilp_pc = "aborted"

(***************************************************************************)
(* C10  Shape of the ILP result: an Ok vector has one entry per basis      *)
(* vector, every entry is an integer in 0..65535, and entry i is the       *)
(* coefficient of basis_vectors[i]: c[i] * basis_vectors[i] stays within   *)
(* the target in every dimension.                                          *)
(***************************************************************************)
C10_ResultShape ==
    IsOk(solution_vector) =>
        LET c == solution_vector[2]
        IN  /\ Len(c) = Len(basis_vectors)
            /\ \A i \in 1..Len(c) : c[i] \in 0..(2^16 - 1)
            /\ \A i \in 1..Len(c) : \A j \in 1..Len(target) :
                    c[i] * basis_vectors[i][j] <= target[j]

\* two basis vectors with different coefficients: 1 = 0 * 2 + 1 * 1
C10_Witness ==
    /\ basis_vectors = <<(<<2>>), (<<1>>)>>
    /\ target = <<1>>
    /\ solution_vector = Ok(<<0, 1>>)

(***************************************************************************)
(* main of bin/day10.rs: both parts over a batch of machines.              *)
(***************************************************************************)
MaxBatch == 2           \* machines in the input of main

\* Machines as Machine::try_from builds them from the lines
\*   [##] (0) (1) {1,1}      [.#] (0) {1,0}
\*   [#.] (0) {1,1}          [#] (0) {40000}
SampleMachines ==
    {[indicator_lights_target |-> <<TRUE, TRUE>>,
      buttons |-> <<(<<0>>), (<<1>>)>>, joltages_target |-> <<1, 1>>],
     [indicator_lights_target |-> <<FALSE, TRUE>>,
      buttons |-> <<(<<0>>)>>, joltages_target |-> <<1, 0>>],
     [indicator_lights_target |-> <<TRUE, FALSE>>,
      buttons |-> <<(<<0>>)>>, joltages_target |-> <<1, 1>>],
     [indicator_lights_target |-> <<TRUE>>,
      buttons |-> <<(<<0>>)>>, joltages_target |-> <<40000>>]}

InitMain ==
    /\ machines \in SeqsUpTo(SampleMachines, MaxBatch)
    /\ main_pc = "part1"
    /\ machine_index = 0
    /\ part1_counts = <<>>
    /\ part2_counts = <<>>
    /\ totals = <<>>
    /\ main_output = NoResult
    /\ buttons = <<>>
    /\ SearchIdle
    /\ ILPIdle
    /\ PairIdle /\ DbIdle /\ FloorIdle

\* part 1, the closure of map() on the next machine:
\* Machine::min_indicator_light_button_presses up to min_transition_count
main_part1_call ==
    /\ main_pc = "part1"
    /\ machine_index < Len(machines)
    /\ LET machine == machines[machine_index + 1]
       IN  /\ buttons' = machine.buttons
           /\ initial_state' =
                initial_indicator_light_state(machine.indicator_lights_target)
           /\ transitions' = indicator_light_transitions(machine.buttons)
           /\ target_state' = machine.indicator_lights_target
           /\ known_states' =
                {initial_indicator_light_state(machine.indicator_lights_target)}
    /\ visited_states' = {}
    /\ transition_count' = 0
    /\ states_to_process' = <<>>
    /\ starting_state' = None
    /\ new_states' = <<>>
    /\ result' = NoResult
    /\ invocation' = 1
    /\ first_result' = NoResult
    /\ pc' = "loop"
    /\ main_pc' = "in_part1"
    /\ UNCHANGED <<machines, machine_index, part1_counts, part2_counts, totals,
                   main_output>>
    /\ UNCHANGED ilp_vars
    /\ UNCHANGED <<pair_vars, db_vars, floor_vars>>

\* collect::<Result<Vec<usize>, String>>()?: an Ok value is pushed and the
\* iterator moves on; the first Err ends the iteration and main returns it
main_part1_return ==
    /\ main_pc = "in_part1"
    /\ pc = "done"
    /\ pc' = "idle"
    /\ IF IsErr(result)
       THEN /\ main_pc' = "failed"
            /\ main_output' = result
            /\ UNCHANGED <<machine_index, part1_counts>>
       ELSE /\ main_pc' = "part1"
            /\ part1_counts' = Append(part1_counts, result[2])
            /\ machine_index' = machine_index + 1
            /\ main_output' = main_output
    /\ UNCHANGED <<machines, part2_counts, totals>>
    /\ UNCHANGED <<input_vars, known_states, visited_states, transition_count,
                   states_to_process, starting_state, new_states, result,
                   invocation, first_result>>
    /\ UNCHANGED ilp_vars
    /\ UNCHANGED <<pair_vars, db_vars, floor_vars>>

\* .iter().sum() in usize once every machine gave Ok
main_part1_sum ==
    /\ main_pc = "part1"
    /\ machine_index = Len(machines)
    /\ totals' = Append(totals, SumSeq(part1_counts))
    /\ machine_index' = 0
    /\ main_pc' = "part2"
    /\ UNCHANGED <<machines, part1_counts, part2_counts, main_output>>
    /\ UNCHANGED search_vars
    /\ UNCHANGED ilp_vars
    /\ UNCHANGED <<pair_vars, db_vars, floor_vars>>

\* part 2, the closure of map() on the next machine:
\* Machine::min_joltage_button_presses up to ILPSolver::new
main_part2_call ==
    /\ main_pc = "part2"
    /\ machine_index < Len(machines)
    /\ LET machine == machines[machine_index + 1]
       IN  /\ buttons' = machine.buttons
           /\ basis_vectors' =
                joltage_basis_vectors(machine.buttons, machine.joltages_target)
           /\ target' = machine.joltages_target
    /\ ilp_pc' = "new"
    /\ solution_vector' = NoResult
    /\ presses' = NoResult
    /\ main_pc' = "in_part2"
    /\ UNCHANGED <<machines, machine_index, part1_counts, part2_counts, totals,
                   main_output>>
    /\ UNCHANGED <<initial_state, transitions, target_state, known_states,
                   visited_states, transition_count, pc, states_to_process,
                   starting_state, new_states, result, invocation, first_result>>
    /\ UNCHANGED <<pair_vars, db_vars, floor_vars>>

\* collect::<Result<Vec<u16>, _>>()?: as in part 1; a panic inside the
\* call ends the process
main_part2_return ==
    /\ main_pc = "in_part2"
    /\ ilp_pc \in {"done", "aborted"}
    /\ ilp_pc' = "idle"
    /\ IF ilp_pc = "aborted"
       THEN /\ main_pc' = "aborted"
            /\ main_output' = Aborted
            /\ UNCHANGED <<machine_index, part2_counts>>
       ELSE IF IsErr(presses)
       THEN /\ main_pc' = "failed"
            /\ main_output' = presses
            /\ UNCHANGED <<machine_index, part2_counts>>
       ELSE /\ main_pc' = "part2"
            /\ part2_counts' = Append(part2_counts, presses[2])
            /\ machine_index' = machine_index + 1
            /\ main_output' = main_output
    /\ UNCHANGED <<machines, part1_counts, totals>>
    /\ UNCHANGED <<basis_vectors, target, solution_vector, presses>>
    /\ UNCHANGED search_vars
    /\ UNCHANGED <<pair_vars, db_vars, floor_vars>>

\* .iter().sum() into min_joltage_button_presses: u16
main_part2_sum ==
    /\ main_pc = "part2"
    /\ machine_index = Len(machines)
    /\ \E total \in sum_u16(part2_counts) :
            IF total = Aborted
            THEN /\ main_pc' = "aborted"
                 /\ main_output' = Aborted
                 /\ totals' = totals
            ELSE /\ main_pc' = "print"
                 /\ main_output' = main_output
                 /\ totals' = Append(totals, total[2])
    /\ UNCHANGED <<machines, machine_index, part1_counts, part2_counts>>
    /\ UNCHANGED search_vars
    /\ UNCHANGED ilp_vars
    /\ UNCHANGED <<pair_vars, db_vars, floor_vars>>

\* the two println! and Ok(())
main_print ==
    /\ main_pc = "print"
    /\ main_output' = Ok(totals)
    /\ main_pc' = "printed"
    /\ UNCHANGED <<machines, machine_index, part1_counts, part2_counts, totals>>
    /\ UNCHANGED search_vars
    /\ UNCHANGED ilp_vars
    /\ UNCHANGED <<pair_vars, db_vars, floor_vars>>

NextMain ==
    \/ main_part1_call
    \/ min_transition_count_err
    \/ step_begin
    \/ step_next_state
    \/ step_visit_state
    \/ step_insert_visited
    \/ step_returns_none
    \/ main_part1_return
    \/ main_part1_sum
    \/ main_part2_call
    \/ ILPSolver_new
    \/ solution
    \/ min_joltage_button_presses_return
    \/ main_part2_return
    \/ main_part2_sum
    \/ main_print

SpecMain == InitMain /\ [][NextMain]_vars

\* main returned: the totals are printed, or an Err came back
MainReturned == main_pc \in {"printed", "failed"}

\* machines whose part-1 call, part-2 call, ran to its end
Part1Processed ==
    Len(part1_counts)
        + (IF main_pc = "failed" /\ main_output = ErrMaxTransitions THEN 1 ELSE 0)

Part2Processed ==
    Len(part2_counts)
        + (IF main_pc = "failed" /\ main_output = ErrInfeasible THEN 1 ELSE 0)

(***************************************************************************)
(* C11  Error isolation across machines: an error on one machine (bound    *)
(* exceeded in part 1, infeasible in part 2) ends the processing of that   *)
(* machine only; when main returns, every machine of the batch has been    *)
(* processed in both parts.                                                *)
(***************************************************************************)
C11_ErrorIsolation ==
    MainReturned =>
        /\ Part1Processed = Len(machines)
        /\ Part2Processed = Len(machines)

(***************************************************************************)
(* C12  Totals do not wrap at 16 bits: the joltage total that main prints *)
(* is the mathematical sum of the per-machine minima, and summing them     *)
(* never ends the process: main aborts only inside the call on a machine.  *)
(***************************************************************************)
C12_TotalsDoNotWrap ==
    /\ main_pc = "printed" => main_output[2][2] = SumSeq(part2_counts)
    /\ main_pc = "aborted" => Len(part2_counts) < Len(machines)

(***************************************************************************)
(* Two searches side by side.  Each call of                                *)
(* Machine::min_indicator_light_button_presses owns the StateMachine it    *)
(* builds; the search variables hold the one that is running and           *)
(* other_search holds the one that is not.  Each search is first run       *)
(* alone, then both are run again from new StateMachines under every       *)
(* interleaving of their steps.                                            *)
(***************************************************************************)
\* Machine::min_indicator_light_button_presses up to min_transition_count,
\* as the value of a call that has not run yet
fresh_search(machine) ==
    [buttons |-> machine.buttons,
     initial_state |->
        initial_indicator_light_state(machine.indicator_lights_target),
     transitions |-> indicator_light_transitions(machine.buttons),
     target_state |-> machine.indicator_lights_target,
     known_states |->
        {initial_indicator_light_state(machine.indicator_lights_target)},
     visited_states |-> {},
     transition_count |-> 0,
     pc |-> "loop",
     states_to_process |-> <<>>,
     starting_state |-> None,
     new_states |-> <<>>,
     result |-> NoResult]

\* the call that is running
running_search ==
    [buttons |-> buttons,
     initial_state |-> initial_state,
     transitions |-> transitions,
     target_state |-> target_state,
     known_states |-> known_states,
     visited_states |-> visited_states,
     transition_count |-> transition_count,
     pc |-> pc,
     states_to_process |-> states_to_process,
     starting_state |-> starting_state,
     new_states |-> new_states,
     result |-> result]

\* the search variables take up the call s
resume(s) ==
    /\ buttons' = s.buttons
    /\ initial_state' = s.initial_state
    /\ transitions' = s.transitions
    /\ target_state' = s.target_state
    /\ known_states' = s.known_states
    /\ visited_states' = s.visited_states
    /\ transition_count' = s.transition_count
    /\ pc' = s.pc
    /\ states_to_process' = s.states_to_process
    /\ starting_state' = s.starting_state
    /\ new_states' = s.new_states
    /\ result' = s.result

InitPair ==
    /\ machines \in [1..2 -> SampleMachines]
    /\ running = 1
    /\ alone_results = <<>>
    /\ other_search = fresh_search(machines[2])
    /\ LET s == fresh_search(machines[1])
       IN  /\ buttons = s.buttons
           /\ initial_state = s.initial_state
           /\ transitions = s.transitions
           /\ target_state = s.target_state
           /\ known_states = s.known_states
           /\ visited_states = s.visited_states
           /\ transition_count = s.transition_count
           /\ pc = s.pc
           /\ states_to_process = s.states_to_process
           /\ starting_state = s.starting_state
           /\ new_states = s.new_states
           /\ result = s.result
    /\ invocation = 1
    /\ first_result = NoResult
    /\ main_pc = "idle"
    /\ machine_index = 0
    /\ part1_counts = <<>>
    /\ part2_counts = <<>>
    /\ totals = <<>>
    /\ main_output = NoResult
    /\ ILPIdle
    /\ DbIdle /\ FloorIdle

\* a search run alone has returned: keep its result; the other machine's
\* call comes next, and this machine gets a new call for the run side by side
alone_return ==
    /\ Len(alone_results) < 2
    /\ pc = "done"
    /\ alone_results' = Append(alone_results, result)
    /\ resume(other_search)
    /\ other_search' = fresh_search(machines[running])
    /\ running' = 3 - running
    /\ UNCHANGED <<invocation, first_result>>
    /\ UNCHANGED main_vars
    /\ UNCHANGED ilp_vars
    /\ UNCHANGED <<db_vars, floor_vars>>

\* Variant of switch in which known_states is one set used by both calls.
switch_sharing_known_states ==
    /\ Len(alone_results) = 2
    /\ other_search.pc # "done"
    /\ resume([other_search EXCEPT !.known_states = known_states])
    /\ other_search' = running_search
    /\ running' = 3 - running
    /\ UNCHANGED <<invocation, first_result, alone_results>>
    /\ UNCHANGED main_vars
    /\ UNCHANGED ilp_vars
    /\ UNCHANGED <<db_vars, floor_vars>>

\* the scheduler moves from the running call to the other one; every field
\* and local of a call belongs to that call alone
switch ==
    /\ Len(alone_results) = 2
    /\ other_search.pc # "done"
    /\ resume(other_search)
    /\ other_search' = running_search
    /\ running' = 3 - running
    /\ UNCHANGED <<invocation, first_result, alone_results>>
    /\ UNCHANGED main_vars
    /\ UNCHANGED ilp_vars
    /\ UNCHANGED <<db_vars, floor_vars>>

NextPair ==
    \/ min_transition_count_err
    \/ step_begin
    \/ step_next_state
    \/ step_visit_state
    \/ step_insert_visited
    \/ step_returns_none
    \/ alone_return
    \/ switch

SpecPair == InitPair /\ [][NextPair]_vars

(***************************************************************************)
(* C13  Independent searches do not interfere: when two searches on two    *)
(* machines run side by side, under every interleaving of their steps each *)
(* returns exactly the result it returned when run alone.                  *)
(***************************************************************************)
C13_IndependentSearches ==
    Len(alone_results) = 2 =>
        /\ pc = "done" => result = alone_results[running]
        /\ other_search.pc = "done" =>
                other_search.result = alone_results[3 - running]

\* both searches of the side-by-side run have returned, the running one
\* with Err after all its passes and the other one with Ok from its pass 2
C13_Witness ==
    /\ Len(alone_results) = 2
    /\ pc = "done"
    /\ other_search.pc = "done"
    /\ IsErr(result)
    /\ IsOk(other_search.result)
    /\ other_search.transition_count = 2

(***************************************************************************)
(* IngredientDatabase (day05.rs).  A RangeInclusive<u64> is a pair         *)
(* <<start, end>>.  u64 is kept as an unsigned width with its two          *)
(* behaviours on overflow: the operation aborts the program (overflow      *)
(* checks on) or wraps (overflow checks off).  The width is scaled down    *)
(* from 64 bits; i64 has the same number of bits.                          *)
(***************************************************************************)
MaxRanges == 3          \* ranges handed to IngredientDatabase::new
MaxId == 3              \* largest ingredient id in a range

u64_MAX == 2^20 - 1

\* RangeInclusive::contains
range_contains(range, x) == range[1] <= x /\ x <= range[2]

\* range.end() - range.start() + 1 leaves u64
range_measure_overflows(range) ==
    \/ range[2] < range[1]
    \/ range[2] - range[1] = u64_MAX

\* range.end() - range.start() + 1, wrapping
range_measure(range) == (range[2] - range[1] + 1 + (u64_MAX + 1)) % (u64_MAX + 1)

\* u64 as i64
as_i64(x) == IF x <= (u64_MAX - 1) \div 2 THEN x ELSE x - (u64_MAX + 1)

\* the key of sort_by_key
sort_key(range) == -as_i64(range_measure(range))

\* stable sort: a range goes behind every range whose key is not larger
RECURSIVE insert_by_key(_, _)
insert_by_key(range, sorted) ==
    IF sorted = <<>> THEN <<range>>
    ELSE IF sort_key(range) < sort_key(Head(sorted))
         THEN <<range>> \o sorted
         ELSE <<Head(sorted)>> \o insert_by_key(range, Tail(sorted))

RECURSIVE sort_first(_, _)
sort_first(ranges, n) ==
    IF n = 0 THEN <<>>
    ELSE insert_by_key(ranges[n], sort_first(ranges, n - 1))

\* sorted_ranges.sort_by_key(|r| -(Self::range_measure(r) as i64))
sort_by_key(ranges) == sort_first(ranges, Len(ranges))

ErrUnit == <<"Err", <<>>>>

\* remove_overlap: Ok(start..=end), Err(()), or the program aborts on
\* existing_range.end() + 1 or existing_range.start() - 1 leaving u64
remove_overlap(range_to_adjust, existing_range, checks) ==
    LET moves_start == range_contains(existing_range, range_to_adjust[1])
        moves_end == range_contains(existing_range, range_to_adjust[2])
        start == IF moves_start
                 THEN (existing_range[2] + 1) % (u64_MAX + 1)
                 ELSE range_to_adjust[1]
        end == IF moves_end
               THEN (existing_range[1] + u64_MAX) % (u64_MAX + 1)
               ELSE range_to_adjust[2]
        leaves_u64 == \/ moves_start /\ existing_range[2] = u64_MAX
                      \/ moves_end /\ existing_range[1] = 0
    IN  IF checks /\ leaves_u64 THEN Aborted
        ELSE IF start > end THEN ErrUnit
        ELSE Ok(<<start, end>>)

\* result.iter().try_fold(range_to_add, remove_overlap)
RECURSIVE try_fold(_, _, _)
try_fold(range, existing_ranges, checks) ==
    IF existing_ranges = <<>> THEN Ok(range)
    ELSE LET adjusted == remove_overlap(range, Head(existing_ranges), checks)
         IN  IF IsOk(adjusted)
             THEN try_fold(adjusted[2], Tail(existing_ranges), checks)
             ELSE adjusted

\* the ranges a line min-max with min <= max parses to
Ranges == {r \in (0..MaxId) \X (0..MaxId) : r[1] <= r[2]}

InitDb ==
    /\ overflow_checks \in BOOLEAN
    /\ db_input \in SeqsUpTo(Ranges, MaxRanges)
    /\ sorted_ranges = <<>>
    /\ fresh_ingredient_ranges = <<>>
    /\ db_pc = "new"
    /\ known_fresh_count = NoResult
    /\ buttons = <<>>
    /\ SearchIdle
    /\ ILPIdle
    /\ MainIdle /\ PairIdle /\ FloorIdle

\* IngredientDatabase::new, remove_overlaps up to the loop: the sort
remove_overlaps_sort ==
    /\ db_pc = "new"
    /\ IF overflow_checks
          /\ \E i \in 1..Len(db_input) : range_measure_overflows(db_input[i])
       THEN /\ db_pc' = "aborted"
            /\ sorted_ranges' = sorted_ranges
       ELSE /\ db_pc' = "adding"
            /\ sorted_ranges' = sort_by_key(db_input)
    /\ UNCHANGED <<overflow_checks, db_input, fresh_ingredient_ranges,
                   known_fresh_count>>
    /\ UNCHANGED <<search_vars, ilp_vars, main_vars, pair_vars, floor_vars>>

\* one round of for range_to_add in sorted_ranges
remove_overlaps_add ==
    /\ db_pc = "adding"
    /\ sorted_ranges # <<>>
    /\ LET adjusted_range == try_fold(Head(sorted_ranges),
                                      fresh_ingredient_ranges, overflow_checks)
       IN  /\ db_pc' = IF adjusted_range = Aborted THEN "aborted" ELSE "adding"
           /\ fresh_ingredient_ranges' =
                IF IsOk(adjusted_range)
                THEN Append(fresh_ingredient_ranges, adjusted_range[2])
                ELSE fresh_ingredient_ranges
    /\ sorted_ranges' = Tail(sorted_ranges)
    /\ UNCHANGED <<overflow_checks, db_input, known_fresh_count>>
    /\ UNCHANGED <<search_vars, ilp_vars, main_vars, pair_vars, floor_vars>>

\* remove_overlaps returns result, new stores it
remove_overlaps_return ==
    /\ db_pc = "adding"
    /\ sorted_ranges = <<>>
    /\ db_pc' = "built"
    /\ UNCHANGED <<overflow_checks, db_input, sorted_ranges,
                   fresh_ingredient_ranges, known_fresh_count>>
    /\ UNCHANGED <<search_vars, ilp_vars, main_vars, pair_vars, floor_vars>>

\* known_fresh_ingredient_count: the measures, summed in u64
known_fresh_ingredient_count ==
    /\ db_pc = "built"
    /\ LET measures == [i \in 1..Len(fresh_ingredient_ranges) |->
                            range_measure(fresh_ingredient_ranges[i])]
           leaves_u64 ==
                \/ \E i \in 1..Len(fresh_ingredient_ranges) :
                        range_measure_overflows(fresh_ingredient_ranges[i])
                \/ SumSeq(measures) > u64_MAX
       IN  IF overflow_checks /\ leaves_u64
           THEN /\ db_pc' = "aborted"
                /\ known_fresh_count' = known_fresh_count
           ELSE /\ db_pc' = "counted"
                /\ known_fresh_count' = Ok(SumSeq(measures) % (u64_MAX + 1))
    /\ UNCHANGED <<overflow_checks, db_input, sorted_ranges,
                   fresh_ingredient_ranges>>
    /\ UNCHANGED <<search_vars, ilp_vars, main_vars, pair_vars, floor_vars>>

NextDb ==
    \/ remove_overlaps_sort
    \/ remove_overlaps_add
    \/ remove_overlaps_return
    \/ known_fresh_ingredient_count

SpecDb == InitDb /\ [][NextDb]_vars

\* the ids that lie in at least one of the ranges handed to new
CoveredIds ==
    {x \in 0..MaxId : \E i \in 1..Len(db_input) : range_contains(db_input[i], x)}

(***************************************************************************)
(* C14  Union measure: for every list of inclusive ranges, ranges that     *)
(* start at 0 included, IngredientDatabase::new followed by                *)
(* known_fresh_ingredient_count ends, and returns the number of distinct   *)
(* integers that lie in at least one of the ranges.                        *)
(***************************************************************************)
C14_UnionMeasure ==
    /\ db_pc # "aborted"
    /\ db_pc = "counted" => known_fresh_count = Ok(Cardinality(CoveredIds))

(***************************************************************************)
(* Floor::valid_edge (day09.rs).  A Vector2<i64> is a pair <<x, y>>, an    *)
(* AxisEdge a record [a, b].                                               *)
(***************************************************************************)
MaxSide == 2            \* largest width and height of the rectangular floor
Margin == 1             \* how far outside the floor an edge may reach

\* ab.perp(&ap), ab = b - a, ap = p - a
orientation(a, b, p) ==
    (b[1] - a[1]) * (p[2] - a[2]) - (b[2] - a[2]) * (p[1] - a[1])

Min(x, y) == IF x <= y THEN x ELSE y
Max(x, y) == IF x <= y THEN y ELSE x

within_open_span(self, test_edge) ==
    LET test_point == test_edge.a
        vertical == self.a[1] = self.b[1]
        min == IF vertical THEN Min(self.a[2], self.b[2])
                           ELSE Min(self.a[1], self.b[1])
        max == IF vertical THEN Max(self.a[2], self.b[2])
                           ELSE Max(self.a[1], self.b[1])
        test_coordinate == IF vertical THEN test_point[2] ELSE test_point[1]
    IN  min < test_coordinate /\ test_coordinate < max

left_intersection(self, test_edge) ==
    IF ~within_open_span(self, test_edge) THEN FALSE
    ELSE LET orientation0 == orientation(self.a, self.b, test_edge.a)
             orientation1 == orientation(self.a, self.b, test_edge.b)
         IN  orientation0 <= 0 /\ orientation1 > 0

\* circular_tuple_windows over the positions of red_tiles
edges(tiles) ==
    [i \in 1..Len(tiles) |->
        [a |-> tiles[i], b |-> tiles[(i % Len(tiles)) + 1]]]

valid_edge_returns(tiles, e) ==
    \A i \in 1..Len(tiles) :
        within_open_span(e, edges(tiles)[i]) =>
            ~left_intersection(e, edges(tiles)[i])

\* AxisEdge::new: the two ends agree in x or in y
AxisEdges ==
    LET coordinates == (0 - Margin)..(MaxSide + Margin)
        points == coordinates \X coordinates
    IN  {e \in [a : points, b : points] :
            e.a[1] = e.b[1] \/ e.a[2] = e.b[2]}

\* the floor with corners (0,0), (W,0), (W,H), (0,H) and an edge
InitFloor ==
    /\ \E W \in 1..MaxSide, H \in 1..MaxSide :
            red_tiles = <<(<<0, 0>>), (<<W, 0>>), (<<W, H>>), (<<0, H>>)>>
    /\ edge \in AxisEdges
    /\ floor_pc = "call"
    /\ valid = NoResult
    /\ buttons = <<>>
    /\ SearchIdle
    /\ ILPIdle
    /\ MainIdle /\ PairIdle /\ DbIdle

valid_edge ==
    /\ floor_pc = "call"
    /\ valid' = valid_edge_returns(red_tiles, edge)
    /\ floor_pc' = "returned"
    /\ UNCHANGED <<red_tiles, edge>>
    /\ UNCHANGED <<search_vars, ilp_vars, main_vars, pair_vars, db_vars>>

NextFloor ==
    \/ valid_edge

SpecFloor == InitFloor /\ [][NextFloor]_vars

\* width and height of the rectangular floor
FloorW == red_tiles[3][1]
FloorH == red_tiles[3][2]

\* both ends, and so the whole edge, lie in the closed rectangle
InsideClosedRectangle ==
    /\ edge.a[1] \in 0..FloorW /\ edge.a[2] \in 0..FloorH
    /\ edge.b[1] \in 0..FloorW /\ edge.b[2] \in 0..FloorH

\* p = from + t * (to - from) / |to - from| for an integer t with lo <= t
\* and, when bounded, t <= |to - from|; from and to are the ends of a side
AlongSide(p, from, to, lo, bounded) ==
    LET dx == to[1] - from[1]
        dy == to[2] - from[2]
        length == IF dx # 0 THEN (IF dx > 0 THEN dx ELSE 0 - dx)
                  ELSE (IF dy > 0 THEN dy ELSE 0 - dy)
        ux == dx \div length
        uy == dy \div length
        t == (p[1] - from[1]) * ux + (p[2] - from[2]) * uy
    IN  /\ p = <<from[1] + t * ux, from[2] + t * uy>>
        /\ lo <= t
        /\ bounded => t <= length

\* the edge starts on side i, runs along it in its direction of travel and
\* ends beyond its end corner
RunsBeyondSide(i) ==
    LET side == edges(red_tiles)[i]
        length == (IF side.a[1] # side.b[1]
                   THEN Max(side.a[1] - side.b[1], side.b[1] - side.a[1])
                   ELSE Max(side.a[2] - side.b[2], side.b[2] - side.a[2]))
    IN  /\ AlongSide(edge.a, side.a, side.b, 0, TRUE)
        /\ AlongSide(edge.b, side.a, side.b, length + 1, FALSE)

(***************************************************************************)
(* C15  Edge validity on a rectangular floor: valid_edge is true for every *)
(* axis-aligned edge inside the closed rectangle, and false for every edge *)
(* that starts on a side, runs along it in the side's direction of travel  *)
(* and ends beyond the side's end corner.                                  *)
(***************************************************************************)
C15_EdgeValidity ==
    floor_pc = "returned" =>
        /\ InsideClosedRectangle => valid
        /\ (\E i \in 1..Len(red_tiles) : RunsBeyondSide(i)) => ~valid

(***************************************************************************)
(* Further claims about the search, over SpecSearch.                       *)
(***************************************************************************)
\* the states that are known and not yet visited
Frontier == unprocessed_states(known_states, visited_states)

\* the states still ahead in the pass that is running
Pending == {states_to_process[i] : i \in 1..Len(states_to_process)}

(***************************************************************************)
(* C16  Search-set invariant: at every point of a search, between and      *)
(* inside passes, visited_states is a subset of known_states and the       *)
(* initial state is in known_states; and no step of a search removes a     *)
(* state from either set.                                                  *)
(***************************************************************************)
C16_SearchSets ==
    /\ [](/\ visited_states \subseteq known_states
          /\ initial_state \in known_states)
    /\ [][invocation' = invocation =>
            /\ known_states \subseteq known_states'
            /\ visited_states \subseteq visited_states']_vars

\* between two passes, with states visited and a frontier beyond them
C16_Witness ==
    /\ pc = "loop"
    /\ Cardinality(visited_states) >= 2
    /\ Frontier # {}

\* the states at distance exactly n from the initial state
AtDistance(n) ==
    IF n = 0 THEN {initial_state}
    ELSE ReachableWithin(n) \ ReachableWithin(n - 1)

(***************************************************************************)
(* C17  BFS layering: between passes, after k passes that returned None,   *)
(* known_states is the set of states reachable from the initial state by   *)
(* at most k transition applications, and the frontier known_states minus  *)
(* visited_states is the set of states at distance exactly k.              *)
(***************************************************************************)
C17_BfsLayering ==
    pc = "loop" =>
        /\ known_states = ReachableWithin(transition_count)
        /\ Frontier = AtDistance(transition_count)

\* after two passes, with two states at distance 2
C17_Witness ==
    /\ pc = "loop"
    /\ transition_count = 2
    /\ Cardinality(Frontier) >= 2
    /\ Frontier = AtDistance(2)

(***************************************************************************)
(* C18  Frontier snapshot: the states processed in a pass are fixed when   *)
(* the pass starts, as the frontier of that moment; nothing joins them     *)
(* while the pass runs, every starting state is taken from them, and a     *)
(* state that becomes known during the pass is not among the states still  *)
(* to process in it.                                                       *)
(***************************************************************************)
C18_FrontierSnapshot ==
    [][/\ (pc = "loop" /\ pc' = "for_states") => Pending' = Frontier
       /\ pc \in {"for_states", "for_new_states"} => Pending' \subseteq Pending
       /\ (pc = "for_states" /\ pc' = "for_new_states") =>
                starting_state'[2] \in Pending
       /\ \A state \in known_states' \ known_states : state \notin Pending'
      ]_vars

\* inside a pass: a state found in this pass is known and not visited,
\* and states of the snapshot are still to process
C18_Witness ==
    /\ pc = "for_states"
    /\ Pending # {}
    /\ Frontier \ Pending # {}

(***************************************************************************)
(* C19  Target test comes first: whenever the state that visit_state is    *)
(* given equals the target, the search returns the current step count at   *)
(* once, whether or not that state is in visited_states; for any other     *)
(* state the visited check decides whether it is added to known_states.    *)
(***************************************************************************)
C19_TargetTestFirst ==
    [][(pc = "for_new_states" /\ new_states # <<>>) =>
            IF Head(new_states) = target_state
            THEN /\ pc' = "done"
                 /\ result' = Ok(transition_count)
            ELSE /\ pc' = "for_new_states"
                 /\ known_states' =
                        IF Head(new_states) \in visited_states
                        THEN known_states
                        ELSE known_states \cup {Head(new_states)}
      ]_vars

(***************************************************************************)
(* C20  Visited set at the end of a pass: when a pass has completed        *)
(* without finding the target, every state of its frontier snapshot (the   *)
(* states at the distance of that pass) is in visited_states and the next  *)
(* frontier holds only states first discovered during that pass; a pass    *)
(* ends only when its snapshot is used up, every starting state is         *)
(* recorded as visited when its transitions are done, and no state that    *)
(* is already visited is expanded again.                                   *)
(***************************************************************************)
C20_PassCompletion ==
    /\ []((pc = "loop" /\ transition_count > 0) =>
            /\ AtDistance(transition_count - 1) \subseteq visited_states
            /\ Frontier \cap ReachableWithin(transition_count - 1) = {})
    /\ [][/\ (pc = "for_states" /\ pc' = "for_new_states") =>
                starting_state'[2] \notin visited_states
          /\ (pc = "for_new_states" /\ pc' = "for_states") =>
                starting_state[2] \in visited_states'
          /\ (pc = "for_states" /\ pc' = "loop") => Pending = {}
         ]_vars

\* two passes completed: two states visited, a frontier found in pass 2
C20_Witness ==
    /\ pc = "loop"
    /\ transition_count = 2
    /\ Cardinality(visited_states) >= 2
    /\ Frontier # {}
    /\ Frontier \cap visited_states = {}

(***************************************************************************)
(* C21  Termination: for every initial state, target and finite transition *)
(* list, a call of min_transition_count that is running eventually         *)
(* returns, and it never starts more than MAX_TRANSITIONS + 1 passes.      *)
(***************************************************************************)
C21_Termination ==
    /\ (pc # "done") ~> (pc = "done")
    /\ [](transition_count <= MAX_TRANSITIONS + 1)

\* returned with the error after MAX_TRANSITIONS + 1 passes over a state
\* space that never closes: the frontier is still not empty
C21_Witness ==
    /\ pc = "done"
    /\ result = ErrMaxTransitions
    /\ transition_count = MAX_TRANSITIONS + 1
    /\ Frontier # {}

(***************************************************************************)
(* C22  The bound-exceeded error is sound: min_transition_count returns    *)
(* the error only if no sequence of at most MAX_TRANSITIONS transition     *)
(* applications, the empty sequence included, leads from the initial       *)
(* state to the target.                                                    *)
(***************************************************************************)
C22_ErrorIsSound ==
    (Returned /\ result = ErrMaxTransitions) => ~ReachesWithin(MAX_TRANSITIONS)

(***************************************************************************)
(* The two methods of a Machine on every machine the parser can build.     *)
(* Machine::try_from checks no index against the number of lights or of    *)
(* counters, does not compare the two numbers, and accepts a line with no  *)
(* button and a button that repeats an index.  One behaviour is one call   *)
(* of one of the two methods on one machine, held in machines[1].          *)
(***************************************************************************)
MaxParsedLights == 1    \* lights of a parsed machine; indices go one further
MaxParsedCounters == 1  \* counters of a parsed machine

\* a button: one index, or two indices (equal ones included)
ParsedButtons ==
    LET indices == 0..MaxParsedLights
    IN  {<<i>> : i \in indices} \cup {<<i, j>> : i \in indices, j \in indices}

\* the buttons of a line: none, one or two
ParsedButtonLists ==
    {<<>>} \cup {<<a>> : a \in ParsedButtons}
           \cup {<<a, b>> : a \in ParsedButtons, b \in ParsedButtons}

ParsedMachines ==
    [indicator_lights_target : UNION {[1..n -> BOOLEAN] : n \in 0..MaxParsedLights},
     buttons : ParsedButtonLists,
     joltages_target : VectorsUpTo(MaxParsedCounters, 1) \ {<<>>}]

InitParsed ==
    /\ \E machine \in ParsedMachines :
        /\ machines = <<machine>>
        /\ buttons = machine.buttons
        /\ \/ /\ new(indicator_light_transitions(machine.buttons),
                     machine.indicator_lights_target,
                     initial_indicator_light_state(machine.indicator_lights_target))
              /\ pc = "loop"
              /\ StepLocalsCleared
              /\ result = NoResult
              /\ invocation = 1
              /\ first_result = NoResult
              /\ ILPIdle
           \/ /\ basis_vectors =
                    joltage_basis_vectors(machine.buttons, machine.joltages_target)
              /\ target = machine.joltages_target
              /\ ilp_pc = "new"
              /\ solution_vector = NoResult
              /\ presses = NoResult
              /\ SearchIdle
    /\ main_pc = "idle"
    /\ machine_index = 0
    /\ part1_counts = <<>>
    /\ part2_counts = <<>>
    /\ totals = <<>>
    /\ main_output = NoResult
    /\ PairIdle /\ DbIdle /\ FloorIdle

NextParsed ==
    \/ min_transition_count_err
    \/ step_begin
    \/ step_next_state
    \/ step_visit_state
    \/ step_insert_visited
    \/ step_returns_none
    \/ ILPSolver_new
    \/ solution
    \/ min_joltage_button_presses_return

SpecParsed == InitParsed /\ [][NextParsed]_vars

\* the machine of the behaviour
parsed_machine == machines[1]

(***************************************************************************)
(* C23  Toggle effect and frame: applying a button to an indicator-light   *)
(* state yields a new state of the same length in which exactly the bits   *)
(* whose index is listed in the button are flipped and every other bit is  *)
(* unchanged, and the input state is not modified; this for every button   *)
(* the parser can produce, one that repeats an index included.  Stated on  *)
(* the step that applies every button of the machine to a frontier state.  *)
(***************************************************************************)
C23_ToggleEffectAndFrame ==
    [][(pc = "for_states" /\ states_to_process # <<>>) =>
         /\ pc' = "for_new_states"
         /\ Len(new_states') = Len(buttons)
         /\ starting_state' = Some(Head(states_to_process))
         /\ known_states' = known_states
         /\ \A b \in 1..Len(buttons) :
              /\ Len(new_states'[b]) = Len(Head(states_to_process))
              /\ \A i \in 1..Len(Head(states_to_process)) :
                    (new_states'[b][i] # Head(states_to_process)[i])
                        <=> button_contains(buttons[b], i - 1)
      ]_vars

(***************************************************************************)
(* C24  Toggle algebra: for all states s and buttons a, b with in-range    *)
(* indices, pressing a twice gives back s, and pressing a then b gives     *)
(* the same state as pressing b then a.  Stated on the step that presses   *)
(* every button of the machine on a frontier state s: pressing a on what   *)
(* a gave is s again, and pressing b on what a gave is pressing a on what  *)
(* b gave.                                                                 *)
(***************************************************************************)
C24_ToggleAlgebra ==
    [][(buttons # <<>> /\ pc = "for_states" /\ pc' = "for_new_states") =>
         \A a \in 1..Len(buttons), b \in 1..Len(buttons) :
            /\ apply_indicator_light_button_press(new_states'[a], buttons[a])
                    = Head(states_to_process)
            /\ apply_indicator_light_button_press(new_states'[a], buttons[b])
                    = apply_indicator_light_button_press(new_states'[b], buttons[a])
      ]_vars

\* the search has pressed two different buttons in both orders and has
\* pressed one of them twice
C24_Witness ==
    /\ Returned
    /\ Len(buttons) = 2
    /\ buttons[1] # buttons[2]
    /\ LET first == Apply(transitions[1], initial_state)
           second == Apply(transitions[2], initial_state)
       IN  /\ first # second
           /\ {initial_state, first, second} \subseteq visited_states
           /\ Apply(transitions[2], first) \in known_states
           /\ Apply(transitions[2], first) \notin {initial_state, first, second}

\* Rust indices of the lights that one press of the button changes, from
\* the all-off state
lights_toggled(button) ==
    LET off == initial_indicator_light_state(parsed_machine.indicator_lights_target)
    IN  {i \in 0..(Len(off) - 1) :
            apply_indicator_light_button_press(off, button)[i + 1] # off[i + 1]}

\* Rust indices of the counters that one press of the button raises
counters_raised(vector) == {i \in 0..(Len(vector) - 1) : vector[i + 1] = 1}

(***************************************************************************)
(* C25  Button-to-counter projection: joltage_basis_vectors yields one     *)
(* vector per button, in button order, each of length                      *)
(* joltages_target.len(), with entry i equal to 1 if index i is listed in  *)
(* the button and 0 otherwise; the dimension assertion of ILPSolver::new   *)
(* never fails when called from min_joltage_button_presses; and the set of *)
(* counters a button raises is the set of lights it toggles.               *)
(***************************************************************************)
C25_ButtonToCounterProjection ==
    ilp_pc # "idle" =>
        /\ Len(basis_vectors) = Len(parsed_machine.buttons)
        /\ target = parsed_machine.joltages_target
        /\ \A b \in 1..Len(basis_vectors) :
              /\ Len(basis_vectors[b]) = Len(parsed_machine.joltages_target)
              /\ \A i \in 1..Len(basis_vectors[b]) :
                    basis_vectors[b][i] =
                        IF i - 1 \in {parsed_machine.buttons[b][k] :
                                        k \in 1..Len(parsed_machine.buttons[b])}
                        THEN 1 ELSE 0
        /\ assert_dimension(basis_vectors, Len(target))
        /\ ilp_pc = "aborted" => (Len(basis_vectors) = 0 \/ solution_vector # NoResult)
        /\ \A b \in 1..Len(basis_vectors) :
              /\ ~index_out_of_bounds(parsed_machine.indicator_lights_target,
                                      parsed_machine.buttons[b])
              /\ counters_raised(basis_vectors[b])
                    = lights_toggled(parsed_machine.buttons[b])

(***************************************************************************)
(* C26  Empty basis: for a machine with no buttons                         *)
(* min_joltage_button_presses ends with a value and not with an abort:     *)
(* Err (infeasible) when some target counter is non-zero, Ok(0) when all   *)
(* target counters are zero.                                               *)
(***************************************************************************)
C26_EmptyBasis ==
    (ilp_pc # "idle" /\ parsed_machine.buttons = <<>>) =>
        /\ ilp_pc # "aborted"
        /\ ilp_pc = "done" =>
              presses = IF \E j \in 1..Len(target) : target[j] # 0
                        THEN ErrInfeasible
                        ELSE Ok(0)

(***************************************************************************)
(* min_transition_count called again on the StateMachine it has returned   *)
(* from.  The method takes &mut self and the object is not rebuilt: the    *)
(* fields are as the first call left them, the locals of step are new.     *)
(***************************************************************************)
min_transition_count_again ==
    /\ pc = "done"
    /\ invocation < MaxInvocations
    /\ invocation' = invocation + 1
    /\ first_result' = IF invocation = 1 THEN result ELSE first_result
    /\ states_to_process' = <<>>
    /\ starting_state' = None
    /\ new_states' = <<>>
    /\ result' = NoResult
    /\ pc' = "loop"
    /\ UNCHANGED <<input_vars, known_states, visited_states, transition_count>>
    /\ UNCHANGED ilp_vars
    /\ UNCHANGED outer_vars

NextReinvoke ==
    \/ min_transition_count_err
    \/ step_begin
    \/ step_next_state
    \/ step_visit_state
    \/ step_insert_visited
    \/ step_returns_none
    \/ min_transition_count_again

SpecReinvoke == InitSearch /\ [][NextReinvoke]_vars

(***************************************************************************)
(* C27  Re-invocation on the same object: after min_transition_count has   *)
(* returned Ok(d) on a StateMachine, calling it again on that StateMachine *)
(* returns Ok(d) again.                                                    *)
(***************************************************************************)
C27_ReinvocationSameObject ==
    (Returned /\ invocation > 1 /\ IsOk(first_result)) => result = first_result

\* between two steps of a search that has nothing left to process and has
\* not returned
Exhausted == pc \in {"loop", "for_states"} /\ Frontier = {}

(***************************************************************************)
(* C28  Exhausted frontier: once known_states minus visited_states is      *)
(* empty and the target has not been found, every later pass leaves        *)
(* known_states and visited_states unchanged and only increases            *)
(* transition_count; the search does not stop early, and it ends with the  *)
(* bound-exceeded error once transition_count exceeds MAX_TRANSITIONS.     *)
(***************************************************************************)
C28_ExhaustedFrontier ==
    /\ [][Exhausted =>
            /\ known_states' = known_states
            /\ visited_states' = visited_states
            /\ transition_count' >= transition_count
            /\ (pc = "loop" /\ pc' = "for_states") =>
                    /\ transition_count' = transition_count + 1
                    /\ states_to_process' = <<>>
            /\ pc' = "done" =>
                    /\ transition_count > MAX_TRANSITIONS
                    /\ result' = ErrMaxTransitions
            /\ pc' # "done" => Exhausted'
         ]_vars
    /\ Exhausted ~> (Returned /\ result = ErrMaxTransitions
                        /\ transition_count = MAX_TRANSITIONS + 1)

\* a search over several states that closed before the bound and went on
\* through empty passes to the error
C28_Witness ==
    /\ Returned
    /\ result = ErrMaxTransitions
    /\ Frontier = {}
    /\ Cardinality(visited_states) > 1
    /\ Cardinality(visited_states) < MAX_TRANSITIONS
    /\ transition_count = MAX_TRANSITIONS + 1
    /\ target_state \notin known_states

\* the ids that lie in at least one of the stored ranges
StoredIds ==
    {x \in 0..MaxId :
        \E i \in 1..Len(fresh_ingredient_ranges) :
            range_contains(fresh_ingredient_ranges[i], x)}

(***************************************************************************)
(* C29  Day 5 disjointness invariant: for every list of input ranges, the  *)
(* ranges stored by IngredientDatabase::new are pairwise disjoint, each is *)
(* non-empty, and their union is the union of the input ranges; no u64     *)
(* subtraction or addition of remove_overlap goes out of range on the way, *)
(* so nothing aborts and no stored bound lies beyond the input's.          *)
(***************************************************************************)
C29_DisjointRanges ==
    /\ db_pc # "aborted"
    /\ \A i \in 1..Len(fresh_ingredient_ranges) :
          /\ fresh_ingredient_ranges[i][1] <= fresh_ingredient_ranges[i][2]
          /\ fresh_ingredient_ranges[i][2] <= MaxId
          /\ \A j \in 1..Len(fresh_ingredient_ranges) :
                i # j =>
                    \/ fresh_ingredient_ranges[i][2] < fresh_ingredient_ranges[j][1]
                    \/ fresh_ingredient_ranges[j][2] < fresh_ingredient_ranges[i][1]
    /\ db_pc \in {"built", "counted"} => StoredIds = CoveredIds

(***************************************************************************)
(* C30  Out-of-range button index: for every machine the parser accepts,   *)
(* one whose button lists an index greater than or equal to the number of  *)
(* lights included, min_indicator_light_button_presses ends with Ok or Err *)
(* and never aborts on an out-of-bounds access, as part 2 does, which      *)
(* ignores an index that no counter has when it builds the basis vectors.  *)
(***************************************************************************)
C30_OutOfRangeButtonIndex ==
    /\ pc # "aborted"
    /\ Returned => (IsOk(result) \/ IsErr(result))
    /\ ilp_pc # "idle" =>
          /\ ilp_pc = "aborted" => Len(basis_vectors) = 0
          /\ \A b \in 1..Len(basis_vectors) :
                counters_raised(basis_vectors[b])
                    = {i \in 0..(Len(target) - 1) :
                            button_contains(parsed_machine.buttons[b], i)}

====
